---- MODULE Spec2Model ----
(***************************************************************************)
(* RAG customer-support chatbot: the classify -> route -> respond-or-      *)
(* escalate workflow of src/langgraph_workflow.py together with the answer *)
(* generator of src/rag_chain.py.                                          *)
(*                                                                         *)
(* Python strings are modelled as sequences of atoms (single characters    *)
(* for the classifier output, which the code trims and lowercases; longer  *)
(* segments for fixed messages).  The empty string is << >>.               *)
(***************************************************************************)
EXTENDS Integers, Sequences, FiniteSets, TLC

(***************************************************************************)
(* Bounds of the model.                                                    *)
(***************************************************************************)
\* number of chunks held by the vector index
MaxChunks == 2

\* callers that may hold an invocation of the workflow in flight at once
MaxInFlight == 2

\* invocations made on the workflow by its direct callers
MaxInvocations == 3

\* chunks the text splitter may cut a document into
MaxSplit == 3

(***************************************************************************)
(* Program constants.                                                      *)
(***************************************************************************)
\* settings.top_k_results
top_k_results == 3

(***************************************************************************)
(* Python values stored in the metadata mapping.  Every value carries its  *)
(* type, so that a str and a dict are different values.                    *)
(***************************************************************************)
PyStr(s) == [type |-> "str", v |-> s]

PyBool(b) == [type |-> "bool", v |-> b]

PyDict(d) == [type |-> "dict", v |-> d]

PyList(l) == [type |-> "list", v |-> l]

\* {}
EmptyDict == [k \in {} |-> PyBool(FALSE)]

\* d[k] = v
DictSet(d, k, v) == [x \in (DOMAIN d) \cup {k} |-> IF x = k THEN v ELSE d[x]]

(***************************************************************************)
(* str.strip() and str.lower()                                             *)
(***************************************************************************)
UpperLetters == <<"A","B","C","D","E","F","G","H","I","J","K","L","M",
                  "N","O","P","Q","R","S","T","U","V","W","X","Y","Z">>

LowerLetters == <<"a","b","c","d","e","f","g","h","i","j","k","l","m",
                  "n","o","p","q","r","s","t","u","v","w","x","y","z">>

Whitespace == {" ", "\t", "\n", "\r"}

LowerChar(c) ==
    IF \E i \in 1..Len(UpperLetters) : UpperLetters[i] = c
    THEN LowerLetters[CHOOSE i \in 1..Len(UpperLetters) : UpperLetters[i] = c]
    ELSE c

lower(s) == [i \in 1..Len(s) |-> LowerChar(s[i])]

RECURSIVE lstrip(_)
lstrip(s) ==
    IF s # << >> /\ Head(s) \in Whitespace THEN lstrip(Tail(s)) ELSE s

RECURSIVE rstrip(_)
rstrip(s) ==
    IF s # << >> /\ s[Len(s)] \in Whitespace
    THEN rstrip(SubSeq(s, 1, Len(s) - 1))
    ELSE s

strip(s) == rstrip(lstrip(s))

(***************************************************************************)
(* The four category tokens                                                *)
(***************************************************************************)
products == <<"p","r","o","d","u","c","t","s">>

returns == <<"r","e","t","u","r","n","s">>

general == <<"g","e","n","e","r","a","l">>

unknown == <<"u","n","k","n","o","w","n">>

valid_categories == <<products, returns, general, unknown>>

InList(x, l) == \E i \in 1..Len(l) : l[i] = x


(***************************************************************************)
(* Collaborators: the classification model, the retriever over the vector  *)
(* index and the generation model.  Each call either returns a value or    *)
(* raises an exception.                                                    *)
(***************************************************************************)
Ok(v) == [ok |-> TRUE, val |-> v]

Raise(e) == [ok |-> FALSE, val |-> e]

\* exceptions a collaborator may raise
Exceptions == { [msg |-> <<"429 Resource exhausted">>],
                [msg |-> <<"Connection timed out">>] }

\* str(e)
str(e) == e.msg

\* queries submitted by callers
Queries == { <<"What is the price of SmartWatch Pro X?">>,
             <<"What's the weather today?">> }

\* response.content of the classification model
RawOutputs ==
    { products, returns, general, unknown,
      <<"P">> \o Tail(products) \o <<"\n">>,
      <<"R">> \o Tail(returns) \o <<"\n">>,
      <<" ","G","E","N","E","R","A","L"," ">>,
      <<"\n","U","n","k","n","o","w","n">>,
      <<" ","R","E","T","U","R","N","S">>,
      <<"\t","p","r","o","d","u","c","t","s","\r","\n">>,
      << >>,
      <<"b","i","l","l","i","n","g">>,
      products \o <<".">>,
      <<"u","n"," ","k","n","o","w","n">> }

ClassifierOutcomes == {Ok(c) : c \in RawOutputs} \cup {Raise(e) : e \in Exceptions}

\* a chunk of the knowledge document as stored in the index
IndexedDocument(i) ==
    [ page_content |-> <<"chunk text ", ToString(i)>>,
      metadata     |-> [source |-> "./product_info.txt", chunk_id |-> i - 1] ]

Min(a, b) == IF a < b THEN a ELSE b

\* similarity search: at most k distinct chunks of the index, in any order
RetrievedLists ==
    { [i \in 1..Len(s) |-> IndexedDocument(s[i])] :
        s \in { t \in UNION { [1..n -> 1..MaxChunks] :
                                n \in 0..Min(top_k_results, MaxChunks) } :
                  \A i, j \in 1..Len(t) : i # j => t[i] # t[j] } }

RetrieverOutcomes == {Ok(d) : d \in RetrievedLists} \cup {Raise(e) : e \in Exceptions}

\* text produced by the generation model
GeneratedTexts == { << >>,
                    <<"The SmartWatch Pro X is priced at 15,999.">>,
                    <<"I don't have that information.">> }

GeneratorOutcomes == {Ok(a) : a \in GeneratedTexts} \cup {Raise(e) : e \in Exceptions}

(***************************************************************************)
(* State                                                                   *)
(***************************************************************************)
VARIABLES
    pc,        \* position of the invocation in flight in the graph, or "idle"
    state,     \* GraphState of the invocation in flight
    visited,   \* graph steps taken by the invocation in flight, in order
    calls,     \* collaborator calls made by the invocation in flight, in order
    result,    \* what invoke() returned, until the next invoke()
    escalated, \* (query, category, answer) of every result returned from Escalate
    workflow,  \* the module-level workflow handle of api/routes.py
    startup,   \* what the lifespan startup found and did
    chat_pc,   \* position of the chat handler: "none", "invoke" or "await"
    request,   \* body of the last chat request received
    response,  \* the last HTTP response sent
    turns,     \* Turn state of each direct caller of RAGWorkflow.invoke
    stubs,     \* what each stubbed collaborator answered, by input
    served,    \* (query, category, answer) returned to direct callers, in order
    loader     \* the last call made on the DocumentLoader and its outcome

vars == <<pc, state, visited, calls, result, escalated,
          workflow, startup, chat_pc, request, response,
          turns, stubs, served, loader>>

\* what lies outside a workflow invocation
outside == <<workflow, startup, chat_pc, request, response>>

\* what belongs to callers that invoke the workflow object directly
direct == <<turns, stubs, served>>

\* the state before any invoke()
NoState == [query |-> << >>, category |-> << >>, answer |-> << >>, metadata |-> EmptyDict]

\* outcome of invoke() as seen by its caller
NoResult == [status |-> "none", val |-> NoState]

Returned(st) == [status |-> "returned", val |-> st]

Raised(e) == [status |-> "raised", val |-> e]

\* a node that raises makes app.invoke, and so invoke(), raise; otherwise the
\* graph moves on to the node's successor
AfterNode(r, next) == IF r.ok THEN next ELSE "idle"

ResultAfterNode(r) == IF r.ok THEN NoResult ELSE Raised(r.val)

StateAfterNode(st, r) == IF r.ok THEN r.val ELSE st

\* workflow = None
None == [kind |-> "None", behaviour |-> NoResult]

\* the RAGWorkflow built by the startup
TheRAGWorkflow == [kind |-> "RAGWorkflow", behaviour |-> NoResult]

NotStarted == [status |-> "not_started", steps |-> << >>, index_has_data |-> FALSE]

NoRequest == [k \in {} |-> << >>]

NoResponse == [endpoint |-> "none", status |-> 0, body |-> [k \in {} |-> << >>]]

Slots == 1..MaxInFlight

\* a caller with no invocation made yet
IdleTurn == [pc |-> "idle", query |-> << >>, started |-> 0,
             state |-> NoState, result |-> NoResult]

\* a stub that has not been called yet
NoAnswers == [k \in {} |-> Ok(<< >>)]

\* no call made on the DocumentLoader yet
NoLoad == [op |-> "none", args |-> << >>, content |-> << >>, chunks |-> << >>,
           out |-> Ok(<< >>)]

Init ==
    /\ pc = "idle"
    /\ state = NoState
    /\ visited = << >>
    /\ calls = << >>
    /\ result = NoResult
    /\ escalated = {}
    /\ workflow = None
    /\ startup = NotStarted
    /\ chat_pc = "none"
    /\ request = NoRequest
    /\ response = NoResponse
    /\ turns = [s \in Slots |-> IdleTurn]
    /\ stubs = [classifier |-> NoAnswers, retriever |-> NoAnswers, llm |-> NoAnswers]
    /\ served = << >>
    /\ loader = NoLoad

(***************************************************************************)
(* RAGWorkflow.route_query and the graph of _build_graph                   *)
(***************************************************************************)
\* state.get("category", "unknown")
GetCategory(st) == IF "category" \in DOMAIN st THEN st.category ELSE unknown

\* variant: general is sent to the RAG responder as well
route_query_general_to_rag(st) ==
    LET category == GetCategory(st)
    IN  IF InList(category, <<products, returns, general>>)
        THEN "rag_responder"
        ELSE "escalation"

route_query(st) ==
    LET category == GetCategory(st)
    IN  IF InList(category, <<products, returns>>)
        THEN "rag_responder"
        ELSE "escalation"

entry_point == "classifier"

\* add_conditional_edges("classifier", route_query, {...})
conditional_edges == [rag_responder |-> "rag_responder", escalation |-> "escalation"]

\* variant: the RAG responder is followed by the escalation node
edges_rag_then_escalation == [rag_responder |-> "escalation", escalation |-> "END"]

\* variant: the RAG responder leads back to the classifier
edges_rag_back_to_classifier == [rag_responder |-> "classifier", escalation |-> "END"]

\* add_edge(node, END)
edges == [rag_responder |-> "END", escalation |-> "END"]

(***************************************************************************)
(* RAGWorkflow.classifier_node                                             *)
(***************************************************************************)
classification_prompt(query) ==
    <<"Classify the following customer query into ONE category only. Query: ">>
    \o query
    \o <<"Respond with ONLY the category name (products, returns, general, or unknown). No explanation.">>

\* variant: the exception's description is nested under the classifier key
classifier_node_nested_error(st, out) ==
    IF out.ok
    THEN LET category == lower(strip(out.val))
             validated == IF ~InList(category, valid_categories)
                          THEN unknown
                          ELSE category
         IN  Ok([st EXCEPT !.category = validated,
                           !.metadata = [classifier |-> PyStr(<<"success">>)]])
    ELSE Ok([st EXCEPT !.category = unknown,
                       !.metadata = [classifier |->
                                        PyDict([error |-> PyStr(str(out.val))])]])

\* variant: the normalized output is not validated against the enumeration
classifier_node_unvalidated(st, out) ==
    IF out.ok
    THEN LET category == lower(strip(out.val))
         IN  Ok([st EXCEPT !.category = category,
                           !.metadata = [classifier |-> PyStr(<<"success">>)]])
    ELSE Ok([st EXCEPT !.category = unknown,
                       !.metadata = [classifier |-> PyStr(<<"error">>),
                                     error      |-> PyStr(str(out.val))]])

\* variant: the call to the model is not guarded by try/except
classifier_node_unguarded(st, out) ==
    IF out.ok
    THEN LET category == lower(strip(out.val))
             validated == IF ~InList(category, valid_categories)
                          THEN unknown
                          ELSE category
         IN  Ok([st EXCEPT !.category = validated,
                           !.metadata = [classifier |-> PyStr(<<"success">>)]])
    ELSE Raise(out.val)

\* variant: the raw output is validated before it is normalized
classifier_node_validate_raw(st, out) ==
    IF out.ok
    THEN LET category == lower(strip(out.val))
             validated == IF ~InList(out.val, valid_categories)
                          THEN unknown
                          ELSE category
         IN  Ok([st EXCEPT !.category = validated,
                           !.metadata = [classifier |-> PyStr(<<"success">>)]])
    ELSE Ok([st EXCEPT !.category = unknown,
                       !.metadata = [classifier |-> PyStr(<<"error">>),
                                     error      |-> PyStr(str(out.val))]])

\* variant: a failed classification falls back to the category of the query
\* served last
classifier_node_last_category(st, out) ==
    IF out.ok
    THEN LET category == lower(strip(out.val))
             validated == IF ~InList(category, valid_categories)
                          THEN unknown
                          ELSE category
         IN  Ok([st EXCEPT !.category = validated,
                           !.metadata = [classifier |-> PyStr(<<"success">>)]])
    ELSE Ok([st EXCEPT !.category = IF served = << >> THEN unknown
                                    ELSE served[Len(served)].category,
                       !.metadata = [classifier |-> PyStr(<<"error">>),
                                     error      |-> PyStr(str(out.val))]])

\* the node, given the outcome of classifier_llm.invoke: the state it returns,
\* or the exception it lets through
classifier_node(st, out) ==
    IF out.ok
    THEN LET category == lower(strip(out.val))
             validated == IF ~InList(category, valid_categories)
                          THEN unknown
                          ELSE category
         IN  Ok([st EXCEPT !.category = validated,
                           !.metadata = [classifier |-> PyStr(<<"success">>)]])
    ELSE Ok([st EXCEPT !.category = unknown,
                       !.metadata = [classifier |-> PyStr(<<"error">>),
                                     error      |-> PyStr(str(out.val))]])

ClassifierNode ==
    /\ pc = "classifier"
    /\ \E out \in ClassifierOutcomes :
         /\ calls' = Append(calls, [fn  |-> "classifier_llm.invoke",
                                    arg |-> classification_prompt(state.query),
                                    out |-> out])
         /\ LET r == classifier_node(state, out)
            IN  /\ state' = StateAfterNode(state, r)
                /\ pc' = AfterNode(r, "route_query")
                /\ result' = ResultAfterNode(r)
    /\ visited' = Append(visited, "classifier")
    /\ UNCHANGED <<direct, loader, escalated, outside>>

(***************************************************************************)
(* RAGChain (src/rag_chain.py)                                             *)
(***************************************************************************)
\* sep.join(parts)
RECURSIVE join(_, _)
join(sep, parts) ==
    IF parts = << >> THEN << >>
    ELSE IF Len(parts) = 1 THEN parts[1]
    ELSE parts[1] \o sep \o join(sep, Tail(parts))

\* format_docs: "\n\n".join([doc.page_content for doc in docs])
format_docs(docs) == join(<<"\n\n">>, [i \in 1..Len(docs) |-> docs[i].page_content])

RetrieverCall(query, out) == [fn |-> "retriever", arg |-> query, out |-> out]

GeneratorCall(context, question, out) ==
    [fn |-> "llm", arg |-> [context |-> context, question |-> question], out |-> out]

\* variant: the chain answers without the model when nothing was retrieved
chain_invoke_short_circuit(query, r, g) ==
    IF ~r.ok
    THEN [calls |-> <<RetrieverCall(query, r)>>, out |-> Raise(r.val)]
    ELSE IF r.val = << >>
    THEN [calls |-> <<RetrieverCall(query, r)>>, out |-> Ok(<<"I don't have that information.">>)]
    ELSE LET context == format_docs(r.val)
         IN  [calls |-> <<RetrieverCall(query, r), GeneratorCall(context, query, g)>>,
              out   |-> g]

\* RAGChain.invoke: the chain retriever | format_docs -> prompt -> llm -> parser.
\* r is the outcome of the chain's retriever call, g of the llm call.
\* Yields the calls made and the value returned or the exception raised.
chain_invoke(query, r, g) ==
    IF ~r.ok
    THEN [calls |-> <<RetrieverCall(query, r)>>, out |-> Raise(r.val)]
    ELSE LET context == format_docs(r.val)
         IN  [calls |-> <<RetrieverCall(query, r), GeneratorCall(context, query, g)>>,
              out   |-> g]

\* variant: the sources are listed in reverse retrieval order
get_context_and_answer_reversed_sources(query, r1, r2, g) ==
    IF ~r1.ok
    THEN [calls |-> <<RetrieverCall(query, r1)>>, out |-> Raise(r1.val)]
    ELSE LET docs    == r1.val
             context == format_docs(docs)
             run     == chain_invoke(query, r2, g)
         IN  IF ~run.out.ok
             THEN [calls |-> <<RetrieverCall(query, r1)>> \o run.calls,
                   out   |-> Raise(run.out.val)]
             ELSE [calls |-> <<RetrieverCall(query, r1)>> \o run.calls,
                   out   |-> Ok([query   |-> query,
                                 context |-> context,
                                 answer  |-> run.out.val,
                                 sources |-> [i \in 1..Len(docs) |->
                                                docs[Len(docs) + 1 - i].metadata]])]

\* RAGChain.get_context_and_answer.  r1 is the outcome of
\* retriever.get_relevant_documents, r2 and g those of the calls made by
\* self.invoke(query).
get_context_and_answer(query, r1, r2, g) ==
    IF ~r1.ok
    THEN [calls |-> <<RetrieverCall(query, r1)>>, out |-> Raise(r1.val)]
    ELSE LET docs    == r1.val
             context == format_docs(docs)
             run     == chain_invoke(query, r2, g)
         IN  IF ~run.out.ok
             THEN [calls |-> <<RetrieverCall(query, r1)>> \o run.calls,
                   out   |-> Raise(run.out.val)]
             ELSE [calls |-> <<RetrieverCall(query, r1)>> \o run.calls,
                   out   |-> Ok([query   |-> query,
                                 context |-> context,
                                 answer  |-> run.out.val,
                                 sources |-> [i \in 1..Len(docs) |-> docs[i].metadata]])]

(***************************************************************************)
(* RAGWorkflow.rag_responder_node                                          *)
(***************************************************************************)
RagFallbackAnswer ==
    <<"I apologize, but I'm having trouble accessing the information right now.",
      " Please try again or contact support.">>

\* variant: the failure record also says that no context was used
rag_responder_node_error_with_flag(st, out) ==
    IF out.ok
    THEN Ok([st EXCEPT !.answer = out.val.answer,
                       !.metadata = DictSet(st.metadata, "rag",
                                       PyDict([sources      |-> PyList(out.val.sources),
                                               context_used |-> PyBool(TRUE)]))])
    ELSE Ok([st EXCEPT !.answer = RagFallbackAnswer,
                       !.metadata = DictSet(st.metadata, "rag",
                                       PyDict([error        |-> PyStr(str(out.val)),
                                               context_used |-> PyBool(FALSE)]))])

\* variant: the call to the RAG chain is not guarded by try/except
rag_responder_node_unguarded(st, out) ==
    IF out.ok
    THEN Ok([st EXCEPT !.answer = out.val.answer,
                       !.metadata = DictSet(st.metadata, "rag",
                                       PyDict([sources      |-> PyList(out.val.sources),
                                               context_used |-> PyBool(TRUE)]))])
    ELSE Raise(out.val)

\* variant: a failure also downgrades the category to unknown
rag_responder_node_downgrading(st, out) ==
    IF out.ok
    THEN Ok([st EXCEPT !.answer = out.val.answer,
                       !.metadata = DictSet(st.metadata, "rag",
                                       PyDict([sources      |-> PyList(out.val.sources),
                                               context_used |-> PyBool(TRUE)]))])
    ELSE Ok([st EXCEPT !.answer = RagFallbackAnswer,
                       !.category = unknown,
                       !.metadata = DictSet(st.metadata, "rag",
                                       PyDict([error |-> PyStr(str(out.val))]))])

\* the node, given the outcome of get_context_and_answer: the state it
\* returns, or the exception it lets through
rag_responder_node(st, out) ==
    IF out.ok
    THEN Ok([st EXCEPT !.answer = out.val.answer,
                       !.metadata = DictSet(st.metadata, "rag",
                                       PyDict([sources      |-> PyList(out.val.sources),
                                               context_used |-> PyBool(TRUE)]))])
    ELSE Ok([st EXCEPT !.answer = RagFallbackAnswer,
                       !.metadata = DictSet(st.metadata, "rag",
                                       PyDict([error |-> PyStr(str(out.val))]))])

RagResponderNode ==
    /\ pc = "rag_responder"
    /\ \E r1 \in RetrieverOutcomes, r2 \in RetrieverOutcomes, g \in GeneratorOutcomes :
         LET run == get_context_and_answer(state.query, r1, r2, g)
             r   == rag_responder_node(state, run.out)
         IN  /\ calls' = calls \o run.calls
             /\ state' = StateAfterNode(state, r)
             /\ pc' = AfterNode(r, edges["rag_responder"])
             /\ result' = ResultAfterNode(r)
    /\ visited' = Append(visited, "rag_responder")
    /\ UNCHANGED <<direct, loader, escalated, outside>>

(***************************************************************************)
(* RAGWorkflow.escalation_node                                             *)
(***************************************************************************)
SupportEmail == "support@techgear.com"

SupportHours == "Monday-Saturday, 9AM-6PM IST"

GeneralSupportMessage ==
    <<"For general inquiries and support:", "\n\n",
      "Email: ", SupportEmail, "\n",
      "Support Hours: ", SupportHours, "\n\n",
      "Our team will be happy to assist you with your questions!">>

CannotAssistMessage ==
    <<"I apologize, but I'm unable to assist with that specific request.", "\n\n",
      "For personalized support, please contact our team:", "\n",
      "Email: ", SupportEmail, "\n",
      "Support Hours: ", SupportHours, "\n\n",
      "Our support team will be happy to help you!">>

\* variant: the message quotes the query
escalation_node_quoting_query(st) ==
    LET category == GetCategory(st)
        escalation_message == IF category = general
                              THEN GeneralSupportMessage
                              ELSE CannotAssistMessage \o <<"\n\n", "Your request: ">> \o st.query
    IN  Ok([st EXCEPT !.answer = escalation_message,
                      !.metadata = DictSet(st.metadata, "escalation", PyBool(TRUE))])

escalation_node(st) ==
    LET category == GetCategory(st)
        escalation_message == IF category = general
                              THEN GeneralSupportMessage
                              ELSE CannotAssistMessage
    IN  Ok([st EXCEPT !.answer = escalation_message,
                      !.metadata = DictSet(st.metadata, "escalation", PyBool(TRUE))])

EscalationNode ==
    /\ pc = "escalation"
    /\ LET r == escalation_node(state)
       IN  /\ state' = StateAfterNode(state, r)
           /\ pc' = AfterNode(r, edges["escalation"])
           /\ result' = ResultAfterNode(r)
    /\ visited' = Append(visited, "escalation")
    /\ UNCHANGED <<direct, loader, calls, escalated, outside>>

(***************************************************************************)
(* The conditional edge out of the classifier                              *)
(***************************************************************************)
RouteQuery ==
    /\ pc = "route_query"
    /\ pc' = conditional_edges[route_query(state)]
    /\ visited' = Append(visited, "route_query")
    /\ UNCHANGED <<direct, loader, state, calls, result, escalated, outside>>

(***************************************************************************)
(* RAGWorkflow.invoke                                                      *)
(***************************************************************************)
initial_state(query) ==
    [query |-> query, category |-> << >>, answer |-> << >>, metadata |-> EmptyDict]

\* the chat handler calls workflow.invoke(request.query) on the RAGWorkflow:
\* the graph starts at its entry point
Invoke ==
    /\ chat_pc = "invoke"
    /\ workflow.kind = "RAGWorkflow"
    /\ pc = "idle"
    /\ state' = initial_state(request.query)
    /\ pc' = entry_point
    /\ visited' = << >>
    /\ calls' = << >>
    /\ result' = NoResult
    /\ chat_pc' = "await"
    /\ UNCHANGED <<direct, loader, escalated, workflow, startup, request, response>>

\* the graph reached END: invoke returns the final state
Return ==
    /\ pc = "END"
    /\ result' = Returned(state)
    /\ escalated' = IF visited[Len(visited)] = "escalation"
                    THEN escalated \cup {[query    |-> state.query,
                                          category |-> state.category,
                                          answer   |-> state.answer]}
                    ELSE escalated
    /\ pc' = "idle"
    /\ UNCHANGED <<direct, loader, state, visited, calls, outside>>

(***************************************************************************)
(* Request boundary (src/api/routes.py)                                    *)
(***************************************************************************)
\* set_workflow(workflow_instance): the new value of the module-level handle
set_workflow(workflow_instance) == workflow_instance

\* test doubles that a harness may install in place of the RAGWorkflow: one
\* whose invoke raises, one whose invoke returns a mapping without the keys
\* of a Turn Result
WorkflowDoubles ==
    { [kind |-> "double", behaviour |-> Raised(e)] : e \in Exceptions }
    \cup { [kind |-> "double", behaviour |-> Returned([k \in {} |-> << >>])] }

\* JSON bodies sent to POST /chat
RequestBodies == { [query |-> q] : q \in Queries \cup { << >> } } \cup { NoRequest }

\* variant: the query field has no minimum length
ChatRequestValid_no_min_length(body) == "query" \in DOMAIN body

\* ChatRequest: query: str = Field(..., min_length=1)
ChatRequestValid(body) == "query" \in DOMAIN body /\ Len(body.query) >= 1

HTTPException(status_code, detail) ==
    [endpoint |-> "chat", status |-> status_code, body |-> [detail |-> detail]]

RequestValidationError ==
    [endpoint |-> "chat", status |-> 422, body |-> [detail |-> <<"query: invalid or missing">>]]

NotInitialized ==
    HTTPException(503, <<"Chatbot service is not initialized. Please try again later.">>)

\* value of d.get(k) for a key that may be absent
PyNone == [type |-> "NoneType", v |-> << >>]

DictGet(d, k) == IF k \in DOMAIN d THEN d[k] ELSE PyNone

\* str(KeyError(k))
KeyErrorText(k) == <<"'", k, "'">>

\* variant: a failure of invoke is reported as service unavailable
chat_reply_unavailable_on_error(res) ==
    IF res.status = "raised" \/ {"query", "answer"} \cap DOMAIN res.val # {"query", "answer"}
    THEN HTTPException(503, <<"Chatbot service is not initialized. Please try again later.">>)
    ELSE [endpoint |-> "chat",
          status   |-> 200,
          body     |-> [query    |-> res.val.query,
                        answer   |-> res.val.answer,
                        category |-> DictGet(res.val, "category"),
                        metadata |-> DictGet(res.val, "metadata")]]

\* variant: the envelope does not pass the metadata on
chat_reply_without_metadata(res) ==
    IF res.status = "raised"
    THEN HTTPException(500, <<"Error processing query: ">> \o str(res.val))
    ELSE LET r == res.val
         IN  IF "query" \notin DOMAIN r
             THEN HTTPException(500, <<"Error processing query: ">> \o KeyErrorText("query"))
             ELSE IF "answer" \notin DOMAIN r
             THEN HTTPException(500, <<"Error processing query: ">> \o KeyErrorText("answer"))
             ELSE [endpoint |-> "chat",
                   status   |-> 200,
                   body     |-> [query    |-> r.query,
                                 answer   |-> r.answer,
                                 category |-> DictGet(r, "category"),
                                 metadata |-> EmptyDict]]

\* the try/except of chat, given the outcome of workflow.invoke(request.query)
chat_reply(res) ==
    IF res.status = "raised"
    THEN HTTPException(500, <<"Error processing query: ">> \o str(res.val))
    ELSE LET r == res.val
         IN  IF "query" \notin DOMAIN r
             THEN HTTPException(500, <<"Error processing query: ">> \o KeyErrorText("query"))
             ELSE IF "answer" \notin DOMAIN r
             THEN HTTPException(500, <<"Error processing query: ">> \o KeyErrorText("answer"))
             ELSE [endpoint |-> "chat",
                   status   |-> 200,
                   body     |-> [query    |-> r.query,
                                 answer   |-> r.answer,
                                 category |-> DictGet(r, "category"),
                                 metadata |-> DictGet(r, "metadata")]]

\* variant: the handler does not test the handle
chat_unavailable_unchecked(wf) == FALSE

\* variant: the handler answers 503 whatever the handle is
chat_unavailable_always(wf) == TRUE

\* the guard of chat: 503 while the handle is None
chat_unavailable(wf) == wf = None

\* POST /chat arrives: the body is validated, then the handler starts.  The
\* Turn state of the previous request is gone.
ChatReceive ==
    /\ chat_pc = "none"
    /\ pc = "idle"
    /\ startup.status # "failed"
    /\ \E body \in RequestBodies :
         /\ request' = body
         /\ IF ~ChatRequestValid(body)
            THEN /\ response' = RequestValidationError
                 /\ chat_pc' = "none"
            ELSE IF chat_unavailable(workflow)
            THEN /\ response' = NotInitialized
                 /\ chat_pc' = "none"
            ELSE /\ response' = NoResponse
                 /\ chat_pc' = "invoke"
    /\ state' = NoState
    /\ visited' = << >>
    /\ calls' = << >>
    /\ result' = NoResult
    /\ UNCHANGED <<direct, loader, pc, escalated, workflow, startup>>

\* the chat handler calls invoke on an installed double
InvokeDouble ==
    /\ chat_pc = "invoke"
    /\ workflow.kind = "double"
    /\ result' = workflow.behaviour
    /\ chat_pc' = "await"
    /\ UNCHANGED <<direct, loader, pc, state, visited, calls, escalated, workflow, startup, request, response>>

\* workflow.invoke has returned or raised: the handler answers
ChatRespond ==
    /\ chat_pc = "await"
    /\ pc = "idle"
    /\ result.status # "none"
    /\ response' = chat_reply(result)
    /\ chat_pc' = "none"
    /\ UNCHANGED <<direct, loader, pc, state, visited, calls, result, escalated, workflow, startup, request>>

\* variant: the flag reports that the handle is unset
health_check_inverted(wf) ==
    [status |-> "healthy", service |-> "RAG Chatbot", workflow_initialized |-> wf = None]

\* body of GET /health
health_check(wf) ==
    [status |-> "healthy", service |-> "RAG Chatbot", workflow_initialized |-> wf # None]

\* GET /health, served between chat requests (chat is a coroutine that calls
\* the blocking invoke, so no other handler runs while it is in flight)
Health ==
    /\ chat_pc = "none"
    /\ pc = "idle"
    /\ startup.status # "failed"
    /\ response' = [endpoint |-> "health", status |-> 200, body |-> health_check(workflow)]
    /\ UNCHANGED <<direct, loader, pc, state, visited, calls, result, escalated,
                   workflow, startup, chat_pc, request>>

\* a test harness that mounts the router without running the startup
\* installs a double with routes.set_workflow
InstallDouble ==
    /\ chat_pc = "none"
    /\ pc = "idle"
    /\ startup.status = "not_started"
    /\ \E d \in WorkflowDoubles : workflow' = set_workflow(d)
    /\ UNCHANGED <<direct, loader, pc, state, visited, calls, result, escalated,
                   startup, chat_pc, request, response>>

(***************************************************************************)
(* Startup: lifespan (src/main.py)                                         *)
(***************************************************************************)
\* what the startup may find: the configured API key, whether the knowledge
\* document exists, whether the index directory exists and holds data, and
\* the step, if any, whose collaborator raises
ApiKeys == { <<"AIza-configured-key">>, << >>, <<"your_gemini_api_key_here">> }

StartupSteps == <<"load_and_split", "VectorStore", "index", "RAGChain", "RAGWorkflow">>

StartupEnvironments ==
    [ api_key        : ApiKeys,
      doc_exists     : BOOLEAN,
      index_has_data : BOOLEAN,
      fail_at        : {"none"} \cup {StartupSteps[i] : i \in 1..Len(StartupSteps)} ]

\* the try block of lifespan run up to and including step number n; the index
\* step is load_vectorstore or create_vectorstore
RECURSIVE StepsThrough(_, _)
StepsThrough(n, env) ==
    IF n = 0 THEN << >>
    ELSE Append(StepsThrough(n - 1, env),
                IF StartupSteps[n] = "index"
                THEN (IF env.index_has_data THEN "load_vectorstore" ELSE "create_vectorstore")
                ELSE StartupSteps[n])

\* does step number n raise in env
StepRaises(n, env) ==
    \/ env.fail_at = StartupSteps[n]
    \/ StartupSteps[n] = "load_and_split" /\ ~env.doc_exists

\* variant: the index is always built from the chunks
lifespan_always_create(env, wf) ==
    LET fresh == [env EXCEPT !.index_has_data = FALSE]
    IN  IF env.api_key = << >> \/ env.api_key = <<"your_gemini_api_key_here">>
        THEN [status |-> "failed", steps |-> << >>, workflow |-> wf]
        ELSE IF \E n \in 1..Len(StartupSteps) : StepRaises(n, env)
        THEN LET n == CHOOSE k \in 1..Len(StartupSteps) :
                         /\ StepRaises(k, env)
                         /\ \A j \in 1..(k - 1) : ~StepRaises(j, env)
             IN  [status |-> "failed", steps |-> StepsThrough(n, fresh), workflow |-> wf]
        ELSE [status   |-> "ready",
              steps    |-> Append(StepsThrough(Len(StartupSteps), fresh), "set_workflow"),
              workflow |-> set_workflow(TheRAGWorkflow)]

\* variant: the workflow is installed even when a step has failed
lifespan_install_on_failure(env, wf) ==
    IF env.api_key = << >> \/ env.api_key = <<"your_gemini_api_key_here">>
    THEN [status |-> "failed", steps |-> << >>, workflow |-> wf]
    ELSE IF \E n \in 1..Len(StartupSteps) : StepRaises(n, env)
    THEN LET n == CHOOSE k \in 1..Len(StartupSteps) :
                     /\ StepRaises(k, env)
                     /\ \A j \in 1..(k - 1) : ~StepRaises(j, env)
         IN  [status   |-> "failed",
              steps    |-> Append(StepsThrough(n, env), "set_workflow"),
              workflow |-> set_workflow(TheRAGWorkflow)]
    ELSE [status   |-> "ready",
          steps    |-> Append(StepsThrough(Len(StartupSteps), env), "set_workflow"),
          workflow |-> set_workflow(TheRAGWorkflow)]

\* lifespan up to the yield: the steps run, in order, whether the startup
\* got through, and the value of the module-level handle afterwards
lifespan(env, wf) ==
    IF env.api_key = << >> \/ env.api_key = <<"your_gemini_api_key_here">>
    THEN [status |-> "failed", steps |-> << >>, workflow |-> wf]
    ELSE IF \E n \in 1..Len(StartupSteps) : StepRaises(n, env)
    THEN LET n == CHOOSE k \in 1..Len(StartupSteps) :
                     /\ StepRaises(k, env)
                     /\ \A j \in 1..(k - 1) : ~StepRaises(j, env)
         IN  [status |-> "failed", steps |-> StepsThrough(n, env), workflow |-> wf]
    ELSE [status   |-> "ready",
          steps    |-> Append(StepsThrough(Len(StartupSteps), env), "set_workflow"),
          workflow |-> set_workflow(TheRAGWorkflow)]

\* the application starts
Lifespan ==
    /\ startup.status = "not_started"
    /\ chat_pc = "none"
    /\ pc = "idle"
    /\ \E env \in StartupEnvironments :
         LET run == lifespan(env, workflow)
         IN  /\ startup' = [status         |-> run.status,
                            steps          |-> run.steps,
                            index_has_data |-> env.index_has_data]
             /\ workflow' = run.workflow
    /\ UNCHANGED <<direct, loader, pc, state, visited, calls, result, escalated, chat_pc, request, response>>

Next ==
    \/ Lifespan
    \/ ChatReceive
    \/ Invoke
    \/ ClassifierNode
    \/ RouteQuery
    \/ RagResponderNode
    \/ EscalationNode
    \/ Return
    \/ InvokeDouble
    \/ ChatRespond
    \/ Health
    \/ InstallDouble

Spec == Init /\ [][Next]_vars

(***************************************************************************)
(* Direct callers of RAGWorkflow.invoke.  Several callers hold the same    *)
(* workflow object and may each have an invocation in flight; the stages   *)
(* of their invocations interleave.  The collaborators are stubs that are  *)
(* deterministic functions of their input: a stub decides its answer to an *)
(* input the first time it is called with it and repeats it afterwards.    *)
(***************************************************************************)
StubClassifierOutcomes ==
    { Ok(<<"P">> \o Tail(products) \o <<"\n">>),
      Ok(general),
      Raise([msg |-> <<"429 Resource exhausted">>]) }

StubRetrieverOutcomes ==
    { Ok(<<IndexedDocument(1)>>),
      Ok(<< >>),
      Raise([msg |-> <<"Connection timed out">>]) }

StubGeneratorOutcomes ==
    { Ok(<<"The SmartWatch Pro X is priced at 15,999.">>),
      Raise([msg |-> <<"429 Resource exhausted">>]) }

\* what a stub may answer to input k: what it answered before, if anything
StubChoices(table, k, all) == IF k \in DOMAIN table THEN {table[k]} ELSE all

\* the stub after answering out to input k
StubLearn(table, k, out) ==
    [x \in (DOMAIN table) \cup {k} |-> IF x = k THEN out ELSE table[x]]

\* the stub's answer to input k
StubAnswer(table, k) ==
    IF k \in DOMAIN table THEN table[k] ELSE Raise([msg |-> <<"stub not called">>])

GeneratorInput(docs, query) == [context |-> format_docs(docs), question |-> query]

\* variant: the Turn state is kept on the workflow object, one for all callers
TurnState_on_workflow_object(ts, s) == ts[CHOOSE t \in Slots : \A u \in Slots : t <= u].state

\* the state app.invoke hands to a node: that of the node's own invocation,
\* built by invoke() for this call
TurnState(ts, s) == ts[s].state

InFlight == {s \in Slots : turns[s].pc # "idle"}

\* a caller calls workflow.invoke(query); callers are interchangeable, so the
\* call is given the first slot that has no invocation in flight
DirectInvoke ==
    /\ Len(served) + Cardinality(InFlight) < MaxInvocations
    /\ \E s \in Slots, q \in Queries :
         /\ turns[s].pc = "idle"
         /\ \A u \in Slots : u < s => turns[u].pc # "idle"
         /\ turns' = [turns EXCEPT ![s] = [pc      |-> entry_point,
                                           query   |-> q,
                                           started |-> Len(served),
                                           state   |-> initial_state(q),
                                           result  |-> NoResult]]
    /\ UNCHANGED <<stubs, served>>
    /\ UNCHANGED <<pc, state, visited, calls, result, escalated, outside, loader>>

DirectClassifierNode ==
    /\ \E s \in Slots :
         /\ turns[s].pc = "classifier"
         /\ LET st == TurnState(turns, s)
                k  == classification_prompt(st.query)
            IN  \E out \in StubChoices(stubs.classifier, k, StubClassifierOutcomes) :
                  LET r == classifier_node(st, out)
                  IN  /\ turns' = [turns EXCEPT ![s].state  = StateAfterNode(st, r),
                                                ![s].pc     = AfterNode(r, "route_query"),
                                                ![s].result = ResultAfterNode(r)]
                      /\ stubs' = [stubs EXCEPT !.classifier = StubLearn(@, k, out)]
    /\ UNCHANGED served
    /\ UNCHANGED <<pc, state, visited, calls, result, escalated, outside, loader>>

DirectRouteQuery ==
    /\ \E s \in Slots :
         /\ turns[s].pc = "route_query"
         /\ turns' = [turns EXCEPT ![s].pc = conditional_edges[route_query(TurnState(turns, s))]]
    /\ UNCHANGED <<stubs, served>>
    /\ UNCHANGED <<pc, state, visited, calls, result, escalated, outside, loader>>

\* both retrievals of the turn put the same query to the retriever stub
DirectRagResponderNode ==
    /\ \E s \in Slots :
         /\ turns[s].pc = "rag_responder"
         /\ LET st == TurnState(turns, s)
            IN  \E r \in StubChoices(stubs.retriever, st.query, StubRetrieverOutcomes) :
                \E g \in (IF r.ok
                          THEN StubChoices(stubs.llm, GeneratorInput(r.val, st.query),
                                           StubGeneratorOutcomes)
                          ELSE {r}) :
                  LET run  == get_context_and_answer(st.query, r, r, g)
                      node == rag_responder_node(st, run.out)
                  IN  /\ turns' = [turns EXCEPT ![s].state  = StateAfterNode(st, node),
                                                ![s].pc     = AfterNode(node, edges["rag_responder"]),
                                                ![s].result = ResultAfterNode(node)]
                      /\ stubs' = [stubs EXCEPT
                                     !.retriever = StubLearn(@, st.query, r),
                                     !.llm = IF r.ok
                                             THEN StubLearn(@, GeneratorInput(r.val, st.query), g)
                                             ELSE @]
    /\ UNCHANGED served
    /\ UNCHANGED <<pc, state, visited, calls, result, escalated, outside, loader>>

DirectEscalationNode ==
    /\ \E s \in Slots :
         /\ turns[s].pc = "escalation"
         /\ LET st == TurnState(turns, s)
                r  == escalation_node(st)
            IN  turns' = [turns EXCEPT ![s].state  = StateAfterNode(st, r),
                                       ![s].pc     = AfterNode(r, edges["escalation"]),
                                       ![s].result = ResultAfterNode(r)]
    /\ UNCHANGED <<stubs, served>>
    /\ UNCHANGED <<pc, state, visited, calls, result, escalated, outside, loader>>

\* the graph of a caller reached END: its invoke returns the final state
DirectReturn ==
    /\ \E s \in Slots :
         /\ turns[s].pc = "END"
         /\ LET st == TurnState(turns, s)
            IN  /\ turns' = [turns EXCEPT ![s].pc = "idle", ![s].result = Returned(st)]
                /\ served' = Append(served, [query    |-> st.query,
                                             category |-> st.category,
                                             answer   |-> st.answer])
    /\ UNCHANGED stubs
    /\ UNCHANGED <<pc, state, visited, calls, result, escalated, outside, loader>>

DirectNext ==
    \/ DirectInvoke
    \/ DirectClassifierNode
    \/ DirectRouteQuery
    \/ DirectRagResponderNode
    \/ DirectEscalationNode
    \/ DirectReturn

DirectSpec == Init /\ [][DirectNext]_vars

\* invoke(query) run alone against the stubs: the state it returns
invoke_alone(query, st) ==
    LET classified == classifier_node(initial_state(query),
                                      StubAnswer(st.classifier, classification_prompt(query))).val
        r          == StubAnswer(st.retriever, query)
        g          == IF r.ok THEN StubAnswer(st.llm, GeneratorInput(r.val, query)) ELSE r
    IN  IF conditional_edges[route_query(classified)] = "rag_responder"
        THEN rag_responder_node(classified, get_context_and_answer(query, r, r, g).out).val
        ELSE escalation_node(classified).val

(***************************************************************************)
(* DocumentLoader (src/document_loader.py).  The text splitter is a        *)
(* collaborator: split_text yields some list of chunks of the content.     *)
(***************************************************************************)
\* settings.knowledge_base_path
knowledge_base_path == "./product_info.txt"

\* paths a caller may pass to load_and_split
FilePaths == {knowledge_base_path, "./docs/faq.txt"}

FileContents == { <<"TechGear product catalogue and return policy.">>,
                  <<"Frequently asked questions.">> }

\* what is found at a path
Files == [exists : BOOLEAN, content : FileContents]

ChunkTexts == { <<"SmartWatch Pro X: 15,999.">>, <<"Returns within 7 days.">> }

\* text_splitter.split_text(content)
ChunkLists == UNION { [1..n -> ChunkTexts] : n \in 0..MaxSplit }

Document(page_content, metadata) == [page_content |-> page_content, metadata |-> metadata]

\* load_document: the content of the file, or FileNotFoundError
load_document(file_path, file) ==
    IF ~file.exists
    THEN Raise([msg |-> <<"Document not found: ", file_path>>])
    ELSE Ok(file.content)

\* split_documents, given the chunks split_text yields for the content
split_documents(content, chunks) ==
    [i \in 1..Len(chunks) |->
        Document(chunks[i], [source |-> knowledge_base_path, chunk_id |-> i - 1])]

\* load_and_split(*args): args is empty when file_path is left to its default
load_and_split(args, file, chunks) ==
    LET file_path == IF args = << >> THEN knowledge_base_path ELSE args[1]
        content   == load_document(file_path, file)
    IN  IF ~content.ok
        THEN content
        ELSE Ok(split_documents(content.val, chunks))

LoadAndSplit ==
    /\ \E args \in {<< >>} \cup {<<p>> : p \in FilePaths}, file \in Files, chunks \in ChunkLists :
         loader' = [op      |-> "load_and_split",
                    args    |-> args,
                    content |-> IF file.exists THEN file.content ELSE << >>,
                    chunks  |-> IF file.exists THEN chunks ELSE << >>,
                    out     |-> load_and_split(args, file, chunks)]
    /\ UNCHANGED <<pc, state, visited, calls, result, escalated, outside, direct>>

SplitDocuments ==
    /\ \E content \in FileContents, chunks \in ChunkLists :
         loader' = [op      |-> "split_documents",
                    args    |-> << >>,
                    content |-> content,
                    chunks  |-> chunks,
                    out     |-> Ok(split_documents(content, chunks))]
    /\ UNCHANGED <<pc, state, visited, calls, result, escalated, outside, direct>>

LoaderNext ==
    \/ LoadAndSplit
    \/ SplitDocuments

LoaderSpec == Init /\ [][LoaderNext]_vars

(***************************************************************************)
(* Vocabulary of the properties                                            *)
(***************************************************************************)
\* an invoke() has completed and its caller holds the outcome
Completed == pc = "idle" /\ visited # << >>

\* number of calls made to collaborator fn by the invocation in flight
RECURSIVE CountCalls(_, _)
CountCalls(fn, log) ==
    IF log = << >> THEN 0
    ELSE (IF Head(log).fn = fn THEN 1 ELSE 0) + CountCalls(fn, Tail(log))

\* number of times the invocation in flight took graph step n
RECURSIVE CountVisits(_, _)
CountVisits(n, path) ==
    IF path = << >> THEN 0
    ELSE (IF Head(path) = n THEN 1 ELSE 0) + CountVisits(n, Tail(path))

\* the exchange with the classification model, once it has happened
ClassifierCalled == calls # << >> /\ calls[1].fn = "classifier_llm.invoke"

\* every collaborator call made so far returned normally
AllCallsOk == \A i \in 1..Len(calls) : calls[i].out.ok

(***************************************************************************)
(* C1: for every query and every behaviour of the classifier, retriever    *)
(* and generator (any output, the empty string included, or failure),      *)
(* invoke returns a Turn Result whose answer is a non-empty string and     *)
(* whose category is populated.                                            *)
(***************************************************************************)
C1_InvokeAnswerNonEmpty ==
    Completed =>
        /\ result.status = "returned"
        /\ result.val.answer # << >>
        /\ result.val.category # << >>

(***************************************************************************)
(* C2: route_query selects rag_responder exactly for products and returns  *)
(* and escalation exactly for general and unknown, and the state it is     *)
(* given always carries one of the four categories.                        *)
(***************************************************************************)
C2_RouteByCategory ==
    /\ pc = "route_query" =>
          /\ InList(state.category, valid_categories)
          /\ route_query(state) = "rag_responder" <=> state.category \in {products, returns}
          /\ route_query(state) = "escalation" <=> state.category \in {general, unknown}
    /\ pc = "rag_responder" => state.category \in {products, returns}
    /\ pc = "escalation" => state.category \in {general, unknown}

C2_Witness ==
    /\ pc = "escalation"
    /\ state.category = general
    /\ visited = <<"classifier", "route_query">>

(***************************************************************************)
(* C3: classifier_node never lets an exception through; when the           *)
(* classifier call raises, or its trimmed and lowercased output is not one *)
(* of the four tokens, the category is unknown.                            *)
(***************************************************************************)
C3_ClassifierNeverRaises ==
    ClassifierCalled =>
        /\ result.status # "raised"
        /\ LET out == calls[1].out
           IN  (~out.ok \/ ~InList(lower(strip(out.val)), valid_categories))
                   => state.category = unknown

C3_Witness ==
    /\ pc = "route_query"
    /\ ~calls[1].out.ok
    /\ state.category = unknown

(***************************************************************************)
(* C4: in every invocation the classifier node runs exactly once, the      *)
(* routing decision is taken exactly once, and exactly one of              *)
(* rag_responder and escalation runs, exactly once.                        *)
(***************************************************************************)
C4_EachStepOnce ==
    /\ \A n \in {"classifier", "route_query", "rag_responder", "escalation"} :
          CountVisits(n, visited) <= 1
    /\ CountVisits("rag_responder", visited) + CountVisits("escalation", visited) <= 1
    /\ (pc = "END" \/ Completed) =>
          \/ visited = <<"classifier", "route_query", "rag_responder">>
          \/ visited = <<"classifier", "route_query", "escalation">>

C4_Witness ==
    /\ Completed
    /\ visited = <<"classifier", "route_query", "rag_responder">>

(***************************************************************************)
(* C5: no external call is retried or repeated: within one invocation no   *)
(* collaborator is called more than once, and an invocation that took the  *)
(* Respond path calls the retriever exactly once and the generation model  *)
(* exactly once.  The exact counts are stated for invocations in which no  *)
(* call raised, where nothing can cut the Respond stage short.             *)
(***************************************************************************)
C5_NoCallRepeated ==
    /\ CountCalls("classifier_llm.invoke", calls) <= 1
    /\ CountCalls("retriever", calls) <= 1
    /\ CountCalls("llm", calls) <= 1
    /\ (Completed /\ CountVisits("rag_responder", visited) = 1 /\ AllCallsOk) =>
          /\ CountCalls("retriever", calls) = 1
          /\ CountCalls("llm", calls) = 1

ValidationFailed ==
    /\ ClassifierCalled
    /\ calls[1].out.ok
    /\ ~InList(lower(strip(calls[1].out.val)), valid_categories)

(***************************************************************************)
(* C7 as stated: when the classifier call succeeds but its normalized      *)
(* output is outside the enumeration, the category is forced to unknown    *)
(* and the failure is recorded under the classifier key, so the metadata   *)
(* differs from that of a valid classification.                            *)
(***************************************************************************)
C7_ValidationFailureRecorded ==
    (pc = "route_query" /\ ValidationFailed) =>
        /\ state.category = unknown
        /\ state.metadata # [classifier |-> PyStr(<<"success">>)]

(***************************************************************************)
(* C7 amended: when the classifier call succeeds but its normalized output *)
(* is outside the enumeration, the category is forced to unknown and the   *)
(* metadata is {"classifier": "success"}, the same as for a valid          *)
(* classification; no failure reason is recorded.                          *)
(***************************************************************************)
C7_ValidationFailureSilent ==
    (pc = "route_query" /\ ValidationFailed) =>
        /\ state.category = unknown
        /\ state.metadata = [classifier |-> PyStr(<<"success">>)]

C7_Witness ==
    /\ pc = "route_query"
    /\ ValidationFailed
    /\ calls[1].out.val = <<"b","i","l","l","i","n","g">>

(***************************************************************************)
(* C8: on the Respond path, if retrieval or generation raises, the answer  *)
(* is the fixed apologetic fallback, metadata["rag"] is exactly            *)
(* {"error": <description>}, and the workflow ends there.                  *)
(***************************************************************************)
C8_RagFailureFallback ==
    (Completed /\ CountVisits("rag_responder", visited) = 1 /\ ~AllCallsOk) =>
        /\ result.status = "returned"
        /\ result.val.answer = RagFallbackAnswer
        /\ "rag" \in DOMAIN result.val.metadata
        /\ result.val.metadata["rag"] =
              PyDict([error |-> PyStr(str(calls[Len(calls)].out.val))])
        /\ visited = <<"classifier", "route_query", "rag_responder">>

C8_Witness ==
    /\ Completed
    /\ visited = <<"classifier", "route_query", "rag_responder">>
    /\ Len(calls) = 4
    /\ calls[4].fn = "llm"
    /\ ~calls[4].out.ok

(***************************************************************************)
(* C9: when the classifier returns products or returns and both retrieval  *)
(* and generation succeed, the final answer is the generation model's      *)
(* output and metadata["rag"] is {sources: the metadata of each chunk      *)
(* returned by get_relevant_documents, in retrieval order,                 *)
(* context_used: true}.                                                    *)
(***************************************************************************)
C9_RagSuccess ==
    (Completed /\ result.status = "returned" /\ AllCallsOk
       /\ result.val.category \in {products, returns}) =>
        LET docs == calls[2].out.val
            gen  == calls[Len(calls)]
        IN  /\ calls[2].fn = "retriever"
            /\ gen.fn = "llm"
            /\ result.val.answer = gen.out.val
            /\ "rag" \in DOMAIN result.val.metadata
            /\ result.val.metadata["rag"] =
                  PyDict([sources      |-> PyList([i \in 1..Len(docs) |-> docs[i].metadata]),
                          context_used |-> PyBool(TRUE)])

C9_Witness ==
    /\ Completed
    /\ result.status = "returned"
    /\ AllCallsOk
    /\ result.val.category = products
    /\ Len(calls[2].out.val) = 2
    /\ result.val.answer = <<"The SmartWatch Pro X is priced at 15,999.">>

(***************************************************************************)
(* C10: whenever the workflow ends in Escalate, the answer is one of two   *)
(* fixed messages chosen by category alone: the support-info message for   *)
(* general, the generic apology for every other category, both containing  *)
(* the support email and hours; results for different queries with the     *)
(* same category carry the same answer; and metadata["escalation"] is true.*)
(***************************************************************************)
C10_EscalationFixedMessages ==
    /\ (Completed /\ visited[Len(visited)] = "escalation") =>
          /\ result.status = "returned"
          /\ result.val.answer = IF result.val.category = general
                                 THEN GeneralSupportMessage
                                 ELSE CannotAssistMessage
          /\ InList(SupportEmail, result.val.answer)
          /\ InList(SupportHours, result.val.answer)
          /\ InList("I apologize, but I'm unable to assist with that specific request.",
                    result.val.answer) <=> result.val.category # general
          /\ "escalation" \in DOMAIN result.val.metadata
          /\ result.val.metadata["escalation"] = PyBool(TRUE)
    /\ \A a, b \in escalated : a.category = b.category => a.answer = b.answer

C10_Witness ==
    /\ Completed
    /\ visited[Len(visited)] = "escalation"
    /\ result.status = "returned"
    /\ result.val.category = unknown
    /\ \E a, b \in escalated :
          a.query # b.query /\ a.category = unknown /\ b.category = unknown

(***************************************************************************)
(* Vocabulary of the properties of the request boundary                    *)
(***************************************************************************)
\* the chat handler has answered the last chat request and nothing was
\* served since
ChatAnswered == chat_pc = "none" /\ response.endpoint = "chat"

(***************************************************************************)
(* C11: with the RAGWorkflow installed, a failure of the classifier, the   *)
(* retriever or the generation model during a chat request is answered     *)
(* with a normal response envelope (status 200, never 500) that carries    *)
(* the degraded answer and the failure in its metadata.                    *)
(***************************************************************************)
C11_FailureNotReported ==
    (ChatAnswered /\ workflow.kind = "RAGWorkflow" /\ Completed /\ ~AllCallsOk) =>
        /\ response.status = 200
        /\ result.status = "returned"
        /\ response.body.query = request.query
        /\ response.body.answer = result.val.answer
        /\ response.body.answer # << >>
        /\ response.body.category = result.val.category
        /\ LET e  == calls[Len(calls)].out.val
               md == response.body.metadata
           IN  IF ~calls[1].out.ok
               THEN /\ "error" \in DOMAIN md
                    /\ md["error"] = PyStr(str(e))
               ELSE /\ "rag" \in DOMAIN md
                    /\ md["rag"] = PyDict([error |-> PyStr(str(e))])

C11_Witness ==
    /\ ChatAnswered
    /\ workflow.kind = "RAGWorkflow"
    /\ Completed
    /\ Len(calls) = 4
    /\ ~calls[4].out.ok
    /\ response.status = 200

(***************************************************************************)
(* C12 as stated: while the workflow handle is None, every chat request is *)
(* answered with 503 and no workflow, classifier, retriever or generator   *)
(* call is made for it.                                                    *)
(***************************************************************************)
C12_UnsetAlways503 ==
    (workflow = None /\ ChatAnswered) =>
        /\ response.status = 503
        /\ pc = "idle" /\ visited = << >> /\ calls = << >> /\ result = NoResult

(***************************************************************************)
(* C12 amended: while the workflow handle is None, every chat request that *)
(* passes request validation is answered with 503, a request with an empty *)
(* or missing query is answered with 422, and in either case no workflow,  *)
(* classifier, retriever or generator call is made for it.                 *)
(***************************************************************************)
C12_UnsetNeverInvokes ==
    workflow = None =>
        /\ chat_pc = "none"
        /\ pc = "idle" /\ visited = << >> /\ calls = << >> /\ result = NoResult
        /\ response.endpoint = "chat" =>
              response = IF ChatRequestValid(request)
                         THEN NotInitialized
                         ELSE RequestValidationError

C12_Witness ==
    /\ workflow = None
    /\ ChatAnswered
    /\ ChatRequestValid(request)
    /\ response.status = 503

(***************************************************************************)
(* C13: if workflow.invoke raises, or its result cannot be turned into a   *)
(* response envelope, chat answers 500 with a detail that carries the      *)
(* exception's description; it answers neither 503 nor a success envelope. *)
(***************************************************************************)
C13_EscapedExceptionIs500 ==
    (ChatAnswered /\ result.status # "none"
       /\ (result.status = "raised" \/ ~({"query", "answer"} \subseteq DOMAIN result.val))) =>
        /\ response.status = 500
        /\ response.body.detail =
              <<"Error processing query: ">>
              \o (IF result.status = "raised" THEN str(result.val)
                  ELSE IF "query" \notin DOMAIN result.val THEN KeyErrorText("query")
                  ELSE KeyErrorText("answer"))

C13_Witness ==
    /\ ChatAnswered
    /\ result.status = "raised"
    /\ response.status = 500
    /\ response.body.detail = <<"Error processing query: ", "Connection timed out">>

(***************************************************************************)
(* C14: a chat request whose query is empty or missing is answered with    *)
(* 422 before the workflow is reached: invoke is never called for it,      *)
(* whether or not the workflow is initialized.                             *)
(***************************************************************************)
C14_InvalidQueryRejected ==
    /\ (ChatAnswered /\ ~ChatRequestValid(request)) =>
          /\ response = RequestValidationError
          /\ pc = "idle" /\ visited = << >> /\ calls = << >> /\ result = NoResult
    /\ chat_pc # "none" => ChatRequestValid(request)
    /\ pc # "idle" => state.query # << >>

C14_Witness ==
    /\ workflow.kind = "RAGWorkflow"
    /\ ChatAnswered
    /\ request = [query |-> << >>]
    /\ response.status = 422

\* a direct caller's invocation has returned
TurnReturned(s) == turns[s].pc = "idle" /\ turns[s].result.status = "returned"

(***************************************************************************)
(* C15: against stubs that are deterministic functions of their input, any *)
(* two invocations with the same query return the same category and the    *)
(* same answer, whatever was invoked before, between or alongside them.    *)
(***************************************************************************)
C15_SameQuerySameAnswer ==
    /\ \A i, j \in 1..Len(served) :
          served[i].query = served[j].query =>
             /\ served[i].category = served[j].category
             /\ served[i].answer = served[j].answer
    /\ \A s, t \in Slots :
          TurnReturned(s) /\ TurnReturned(t) /\ turns[s].query = turns[t].query =>
             /\ turns[s].result.val.category = turns[t].result.val.category
             /\ turns[s].result.val.answer = turns[t].result.val.answer

\* the same query answered first and third, another query answered in between
C15_Witness ==
    /\ Len(served) = MaxInvocations
    /\ served[1].query = served[Len(served)].query
    /\ \E i \in 1..Len(served) : served[i].query # served[1].query
    /\ \E i \in 1..Len(served) : served[i].category = products
    /\ \E i \in 1..Len(served) : served[i].category # products

(***************************************************************************)
(* C16: however the stages of the invocations in flight interleave, the    *)
(* Turn Result an invocation returns (query, category, answer, metadata)   *)
(* is the one its query gets when run alone, and it carries no metadata    *)
(* tag of the other path: a Respond result has no escalation tag, an       *)
(* Escalate result has no rag tag.                                         *)
(***************************************************************************)
C16_TurnsIsolated ==
    \A s \in Slots :
       TurnReturned(s) =>
          /\ turns[s].result.val = invoke_alone(turns[s].query, stubs)
          /\ turns[s].result.val.query = turns[s].query
          /\ ~ ( "rag" \in DOMAIN turns[s].result.val.metadata
                 /\ "escalation" \in DOMAIN turns[s].result.val.metadata )

\* two invocations started before either returned, one answered from the
\* knowledge base and one escalated
C16_Witness ==
    \E s, t \in Slots :
       /\ TurnReturned(s) /\ TurnReturned(t)
       /\ turns[s].query # turns[t].query
       /\ turns[s].started = turns[t].started
       /\ "rag" \in DOMAIN turns[s].result.val.metadata
       /\ "escalation" \in DOMAIN turns[t].result.val.metadata

(***************************************************************************)
(* Vocabulary of the properties of the startup                             *)
(***************************************************************************)
StepRun(name) == InList(name, startup.steps)

\* number of index steps (load or build) the startup ran
IndexSteps ==
    CountVisits("load_vectorstore", startup.steps)
    + CountVisits("create_vectorstore", startup.steps)

(***************************************************************************)
(* C17 as stated: at startup, if the index directory exists and contains   *)
(* data, the existing index is loaded and the knowledge document is not    *)
(* chunked (no load-and-split step runs) and not indexed; otherwise the    *)
(* index is built from the chunks of the document.  Exactly one of load    *)
(* and build happens per startup.                                          *)
(***************************************************************************)
C17_LoadSkipsChunking ==
    startup.status = "ready" =>
        /\ IndexSteps = 1
        /\ IF startup.index_has_data
           THEN /\ StepRun("load_vectorstore")
                /\ ~StepRun("load_and_split")
                /\ ~StepRun("create_vectorstore")
           ELSE /\ StepRun("load_and_split")
                /\ StepRun("create_vectorstore")

(***************************************************************************)
(* C17 amended: the startup always loads and chunks the knowledge document *)
(* first.  If the index directory exists and contains data, the existing   *)
(* index is then loaded as-is and the chunks are not indexed; otherwise    *)
(* the index is built from those chunks.  A startup that completes does    *)
(* exactly one of load and build, and no startup does both.                *)
(***************************************************************************)
C17_LoadOrBuildAfterChunking ==
    /\ IndexSteps <= 1
    /\ IndexSteps = 1 =>
          /\ Len(startup.steps) >= 3
          /\ startup.steps[1] = "load_and_split"
          /\ startup.steps[3] = IF startup.index_has_data
                                THEN "load_vectorstore"
                                ELSE "create_vectorstore"
    /\ startup.status = "ready" =>
          /\ IndexSteps = 1
          /\ workflow.kind = "RAGWorkflow"

C17_Witness ==
    /\ startup.status = "ready"
    /\ startup.index_has_data
    /\ StepRun("load_vectorstore")
    /\ StepRun("load_and_split")

(***************************************************************************)
(* C18: the health operation returns status, service name and a flag that  *)
(* is true exactly when the workflow handle has been set, and it changes   *)
(* nothing else: the handle and all that a later chat request depends on   *)
(* are the same after it as before.                                        *)
(***************************************************************************)
C18_HealthReadsOnly ==
    [][ (response' # response /\ response'.endpoint = "health") =>
          /\ response'.status = 200
          /\ response'.body = [status               |-> "healthy",
                               service              |-> "RAG Chatbot",
                               workflow_initialized |-> workflow.kind # "None"]
          /\ UNCHANGED <<pc, state, visited, calls, result, escalated,
                         workflow, startup, chat_pc, request, direct, loader>> ]_vars

C18_Witness ==
    /\ response.endpoint = "health"
    /\ response.body.workflow_initialized
    /\ workflow.kind = "RAGWorkflow"
    /\ Completed

\* the Respond stage ran and every retrieval of the invocation returned no chunk
NothingRetrieved ==
    /\ CountVisits("rag_responder", visited) = 1
    /\ \A i \in 1..Len(calls) :
          calls[i].fn = "retriever" => calls[i].out.ok /\ calls[i].out.val = << >>

(***************************************************************************)
(* C19: on the Respond path, when retrieval returns zero chunks the        *)
(* context is the empty string and the generation model is still called;   *)
(* the result then has metadata["rag"].sources equal to the empty list and *)
(* context_used true.                                                      *)
(***************************************************************************)
C19_EmptyRetrievalStillGenerates ==
    /\ NothingRetrieved =>
          /\ Len(calls) = 4
          /\ calls[4].fn = "llm"
          /\ calls[4].arg = [context |-> << >>, question |-> state.query]
    /\ (Completed /\ NothingRetrieved /\ AllCallsOk) =>
          /\ result.status = "returned"
          /\ result.val.answer = calls[4].out.val
          /\ result.val.metadata["rag"] =
                PyDict([sources |-> PyList(<< >>), context_used |-> PyBool(TRUE)])

C19_Witness ==
    /\ Completed
    /\ NothingRetrieved
    /\ AllCallsOk
    /\ result.val.answer = <<"I don't have that information.">>

(***************************************************************************)
(* The graph runs every node it reaches to completion: each collaborator   *)
(* call returns or raises, so a node that is enabled eventually steps, and *)
(* invoke returns once the graph is at END.                                *)
(***************************************************************************)
LiveSpec ==
    /\ Spec
    /\ WF_vars(ClassifierNode)
    /\ WF_vars(RouteQuery)
    /\ WF_vars(RagResponderNode)
    /\ WF_vars(EscalationNode)
    /\ WF_vars(Return)

(***************************************************************************)
(* C20: every invocation terminates: once started it reaches exactly one   *)
(* of the terminal nodes rag_responder and escalation and then ends; from  *)
(* rag_responder or escalation the graph goes nowhere but to END, and      *)
(* from END nowhere but back to the caller.                                *)
(***************************************************************************)
C20_InvocationTerminates ==
    /\ (pc = "classifier") ~>
          ( /\ pc = "END"
            /\ CountVisits("rag_responder", visited) + CountVisits("escalation", visited) = 1
            /\ visited[Len(visited)] \in {"rag_responder", "escalation"} )
    /\ (pc = "END") ~> (pc = "idle" /\ result.status = "returned")
    /\ [][ /\ pc \in {"rag_responder", "escalation"} => pc' \in {pc, "END"}
           /\ pc = "END" => pc' \in {"END", "idle"} ]_vars

C20_Witness ==
    /\ Completed
    /\ result.status = "returned"
    /\ visited = <<"classifier", "route_query", "escalation">>

(***************************************************************************)
(* C21: from the routing decision on, and in the Turn Result handed to the *)
(* caller, the category is one of products, returns, general, unknown;     *)
(* the empty category of the initial state is seen by nothing after the    *)
(* classifier.                                                             *)
(***************************************************************************)
C21_CategoryEnumerated ==
    /\ pc \in {"route_query", "rag_responder", "escalation", "END"} =>
          /\ InList(state.category, valid_categories)
          /\ state.category # << >>
    /\ (Completed /\ result.status = "returned") =>
          InList(result.val.category, valid_categories)
    /\ (ChatAnswered /\ response.status = 200) =>
          InList(response.body.category, valid_categories)

C21_Witness ==
    /\ ChatAnswered
    /\ response.status = 200
    /\ calls[1].out.ok
    /\ calls[1].out.val = products \o <<".">>
    /\ response.body.category = unknown

(***************************************************************************)
(* C22: a chat request answered with 200 carries the Turn Result field for *)
(* field: the query is the one submitted in the request, unchanged by any  *)
(* stage, and answer, category and metadata are those of the Turn Result.  *)
(***************************************************************************)
C22_EnvelopeCopiesTurnResult ==
    (ChatAnswered /\ response.status = 200) =>
        /\ result.status = "returned"
        /\ response.body.query = request.query
        /\ response.body.query = result.val.query
        /\ response.body.answer = result.val.answer
        /\ response.body.category = result.val.category
        /\ response.body.metadata = result.val.metadata

C22_Witness ==
    /\ ChatAnswered
    /\ response.status = 200
    /\ response.body.query = <<"What is the price of SmartWatch Pro X?">>
    /\ response.body.category = returns
    /\ "rag" \in DOMAIN response.body.metadata
    /\ AllCallsOk

(***************************************************************************)
(* C23: an invocation that takes the Escalate path calls neither the       *)
(* retriever nor the generation model: from the routing decision to its    *)
(* end the only collaborator call it has made is the one classifier call.  *)
(***************************************************************************)
C23_EscalateCallsNothing ==
    (pc = "escalation" \/ CountVisits("escalation", visited) >= 1) =>
        /\ Len(calls) = 1
        /\ calls[1].fn = "classifier_llm.invoke"
        /\ CountCalls("retriever", calls) = 0
        /\ CountCalls("llm", calls) = 0

C23_Witness ==
    /\ Completed
    /\ result.status = "returned"
    /\ visited = <<"classifier", "route_query", "escalation">>
    /\ result.val.category = general
    /\ Len(calls) = 1

(***************************************************************************)
(* C24: the classifier's raw output is trimmed and lowercased before it is *)
(* validated: whenever the normalized text is one of the four tokens the   *)
(* category is that token, so " GENERAL " is general, "Products\n" is      *)
(* products and "\nUnknown" is unknown, while text that differs by more    *)
(* than case and surrounding whitespace is unknown.                        *)
(***************************************************************************)
C24_NormalizeThenValidate ==
    (pc \in {"route_query", "rag_responder", "escalation", "END"} /\ calls[1].out.ok) =>
        LET raw == calls[1].out.val
        IN  /\ InList(lower(strip(raw)), valid_categories) => state.category = lower(strip(raw))
            /\ raw = <<" ","G","E","N","E","R","A","L"," ">> => state.category = general
            /\ raw = <<"P","r","o","d","u","c","t","s","\n">> => state.category = products
            /\ raw = <<" ","R","E","T","U","R","N","S">> => state.category = returns
            /\ raw = <<"\n","U","n","k","n","o","w","n">> => state.category = unknown
            /\ raw = <<"\t","p","r","o","d","u","c","t","s","\r","\n">> => state.category = products
            /\ raw = <<"u","n"," ","k","n","o","w","n">> => state.category = unknown
            /\ raw = <<"p","r","o","d","u","c","t","s",".">> => state.category = unknown

C24_Witness ==
    /\ pc = "rag_responder"
    /\ calls[1].out.ok
    /\ calls[1].out.val = <<"\t","p","r","o","d","u","c","t","s","\r","\n">>
    /\ state.category = products

\* the steps of a startup that gets through, in the order of lifespan
StartupOrder ==
    <<"load_and_split", "VectorStore",
      IF startup.index_has_data THEN "load_vectorstore" ELSE "create_vectorstore",
      "RAGChain", "RAGWorkflow", "set_workflow">>

IsPrefix(a, b) == Len(a) <= Len(b) /\ \A i \in 1..Len(a) : a[i] = b[i]

(***************************************************************************)
(* C25: the startup runs load-and-chunk, build-or-load index, RAG chain,   *)
(* workflow in that order and calls set_workflow last, only when all of    *)
(* them succeeded.  When the API key check or a step fails, set_workflow   *)
(* is not called, the handle is left as it was (None), and the failure is  *)
(* re-raised: no request is served afterwards.                             *)
(***************************************************************************)
C25_InstallOnlyAfterAllSteps ==
    /\ [] ( /\ IsPrefix(startup.steps, StartupOrder)
            /\ startup.status = "ready" =>
                  /\ startup.steps = StartupOrder
                  /\ workflow = TheRAGWorkflow
            /\ startup.status = "failed" =>
                  /\ ~StepRun("set_workflow")
                  /\ workflow.kind # "RAGWorkflow"
                  /\ chat_pc = "none" )
    /\ [][ /\ (startup' # startup /\ startup'.status = "failed") => workflow' = workflow
           /\ startup.status = "failed" =>
                 UNCHANGED <<workflow, startup, chat_pc, request, response>> ]_vars

C25_Witness ==
    /\ startup.status = "failed"
    /\ startup.steps = <<"load_and_split", "VectorStore", "create_vectorstore",
                         "RAGChain", "RAGWorkflow">>
    /\ workflow = None
    /\ response = NoResponse

(***************************************************************************)
(* C26: the metadata of every final Turn Result holds exactly one of the   *)
(* keys rag and escalation: rag exactly when the category is products or   *)
(* returns, escalation (with value true) exactly when it is general or     *)
(* unknown.                                                                *)
(***************************************************************************)
C26_OnePathTag ==
    (Completed /\ result.status = "returned") =>
        LET md  == result.val.metadata
            cat == result.val.category
        IN  /\ ("rag" \in DOMAIN md) # ("escalation" \in DOMAIN md)
            /\ "rag" \in DOMAIN md <=> cat \in {products, returns}
            /\ "escalation" \in DOMAIN md <=> cat \in {general, unknown}
            /\ "escalation" \in DOMAIN md => md["escalation"] = PyBool(TRUE)

C26_Witness ==
    /\ Completed
    /\ result.status = "returned"
    /\ ~calls[1].out.ok
    /\ result.val.category = unknown
    /\ DOMAIN result.val.metadata = {"classifier", "error", "escalation"}

(***************************************************************************)
(* C27: on a successful Respond the sources reported in metadata["rag"]    *)
(* are the metadata of exactly the chunks whose text was given to the      *)
(* generation model as context, in the same order, whatever the retriever  *)
(* returns on each of its calls.                                           *)
(***************************************************************************)
C27_SourcesAreContext ==
    (Completed /\ result.status = "returned" /\ AllCallsOk
       /\ "rag" \in DOMAIN result.val.metadata) =>
        LET sources == result.val.metadata["rag"].v.sources.v
            gen     == calls[Len(calls)]
        IN  /\ gen.fn = "llm"
            /\ gen.arg.context =
                  format_docs([i \in 1..Len(sources) |->
                                 IndexedDocument(sources[i].chunk_id + 1)])

(***************************************************************************)
(* C28: initialization is monotonic.  Once the handle is set, no step of   *)
(* the request boundary unsets it; once the startup has installed the      *)
(* workflow the handle never changes again, every health response reports  *)
(* workflow_initialized true and no chat request is answered with 503.     *)
(***************************************************************************)
C28_InitializationMonotonic ==
    [][ /\ workflow # None => workflow' # None
        /\ startup.status = "ready" =>
              /\ workflow = TheRAGWorkflow
              /\ workflow' = workflow
              /\ startup' = startup
              /\ response' # response =>
                    /\ response'.status # 503
                    /\ response'.endpoint = "health" =>
                          response'.body.workflow_initialized ]_vars

C28_Witness ==
    /\ startup.status = "ready"
    /\ StepRun("set_workflow")
    /\ workflow = TheRAGWorkflow
    /\ ChatAnswered
    /\ response.status = 200
    /\ escalated # {}

(***************************************************************************)
(* C29: a failure on the Respond path changes only the answer and          *)
(* metadata["rag"]: the query, the category (still products or returns)    *)
(* and the classifier entry written by the Classify stage are the same     *)
(* after the failed Respond as before it.                                  *)
(***************************************************************************)
C29_RagFailureFrame ==
    [][ ( /\ pc = "rag_responder"
          /\ pc' # pc
          /\ \E i \in 1..Len(calls') : ~calls'[i].out.ok ) =>
            /\ state'.query = state.query
            /\ state'.category = state.category
            /\ state'.category \in {products, returns}
            /\ DOMAIN state'.metadata = DOMAIN state.metadata \cup {"rag"}
            /\ \A k \in DOMAIN state.metadata : state'.metadata[k] = state.metadata[k]
            /\ state'.metadata["classifier"] = PyStr(<<"success">>)
            /\ state'.answer = RagFallbackAnswer ]_vars

C29_Witness ==
    /\ Completed
    /\ result.status = "returned"
    /\ CountVisits("rag_responder", visited) = 1
    /\ ~AllCallsOk
    /\ result.val.category = returns
    /\ result.val.metadata["classifier"] = PyStr(<<"success">>)
    /\ result.val.answer = RagFallbackAnswer

(***************************************************************************)
(* C30: the chunks of a document carry chunk_id 0..n-1 in document order,  *)
(* distinct and contiguous, and every chunk's source names the file that   *)
(* was actually loaded, also when load_and_split is given a file_path      *)
(* other than the configured knowledge-base path.                          *)
(***************************************************************************)
C30_ChunkMetadata ==
    (loader.op # "none" /\ loader.out.ok) =>
        LET docs == loader.out.val
        IN  /\ Len(docs) = Len(loader.chunks)
            /\ \A i \in 1..Len(docs) :
                  /\ docs[i].page_content = loader.chunks[i]
                  /\ docs[i].metadata.chunk_id = i - 1
            /\ \A i, j \in 1..Len(docs) :
                  i # j => docs[i].metadata.chunk_id # docs[j].metadata.chunk_id
            /\ loader.op = "load_and_split" =>
                  \A i \in 1..Len(docs) :
                     docs[i].metadata.source =
                        IF loader.args = << >> THEN knowledge_base_path ELSE loader.args[1]

====
